---------------------------- MODULE Spec2Model ----------------------------
(***************************************************************************)
(* A model of the TLE tooling of MECH-542:                                 *)
(*   - read_tle_file, propagate_arc, set_equal_aspect_3d and the two       *)
(*     render functions of orbit_3d_plots.py;                              *)
(*   - the element-history parse loop of orbit_3d_norad63130.py and of its *)
(*     twin for NORAD 37869 (unnamed/part_000), which differ only in the   *)
(*     file name and the figure styling.                                   *)
(*                                                                         *)
(* Text is modelled as sequences of one-character strings.  Real numbers   *)
(* are modelled exactly (decimal fractions as integer/fraction pairs,      *)
(* halves in doubled units), except in the time grid of propagate_arc,     *)
(* where the length of numpy.arange is decided by floating-point rounding: *)
(* there the arithmetic is a binary floating point with FloatBits          *)
(* significand bits, round-to-nearest-even.                                *)
(***************************************************************************)
EXTENDS Integers, Sequences, FiniteSets, TLC

VARIABLES
    \* ---- read_tle_file (orbit_3d_plots.py) ----
    path_exists,  \* os.path.exists(path)
    file,         \* the raw text lines of the file at `path`
    lines,        \* the stripped, non-blank lines
    pairs,        \* the accumulated (l1, l2) pairs
    i,            \* the scan index
    rpc,          \* position: "start", "scan", "returned", or the exception raised
    \* ---- the element-history scripts ----
    hlines,       \* f.readlines()
    hi,           \* the loop variable of range(0, len(lines), 2)
    hpc,          \* position: "loop", "done", "frame", or "ValueError"
    epoch_field, year, day_of_year, frac_day,   \* script-level names of the loop body
    epochs, incl, raan, ecc, argp, mean_anom, mean_motion,
    \* ---- what either program printed ----
    stdout,
    \* ---- propagate_arc and the render functions ----
    minutes, step_min,   \* the arguments of propagate_arc
    tsince,              \* the time grid
    k,                   \* index of the next grid point of the for loop
    calls,               \* the log of sat.sgp4 calls: [dt, e, r]
    xyz,                 \* the rows appended to xs, ys, zs
    apc,                 \* position in propagate_arc / render_*_png
    r_a, r_b,            \* the arrays handed to the plotting code
    mode,                \* "single" (render_orbit_png) or "combined"
    plotted,             \* the arrays given to ax.plot
    lims                 \* the axis limits set by set_equal_aspect_3d

readerVars == <<path_exists, file, lines, pairs, i, rpc>>
histVars == <<hlines, hi, hpc, epoch_field, year, day_of_year, frac_day,
              epochs, incl, raan, ecc, argp, mean_anom, mean_motion>>
arcVars == <<minutes, step_min, tsince, k, calls, xyz>>
renderVars == <<r_a, r_b, mode, plotted, lims>>
vars == <<readerVars, histVars, stdout, arcVars, apc, renderVars>>

---------------------------------------------------------------------------
(* Generic helpers *)

RECURSIVE SeqsUpTo(_, _)
SeqsUpTo(S, n) ==
    IF n = 0 THEN {<<>>}
    ELSE LET shorter == SeqsUpTo(S, n - 1)
         IN  shorter \cup {Append(s, x) : s \in {t \in shorter : Len(t) = n - 1}, x \in S}

Last(s) == s[Len(s)]

Max(a, b) == IF a >= b THEN a ELSE b

Min(a, b) == IF a <= b THEN a ELSE b

---------------------------------------------------------------------------
(* read_tle_file *)

\* Largest number of raw lines in a modelled TLE file.
MaxLines == 4

Whitespace == {" ", "\t", "\n"}

\* str.strip(): drop leading and trailing whitespace.
RECURSIVE LStrip(_)
LStrip(s) ==
    IF s # <<>> /\ Head(s) \in Whitespace THEN LStrip(Tail(s)) ELSE s

RECURSIVE RStrip(_)
RStrip(s) ==
    IF s # <<>> /\ Last(s) \in Whitespace THEN RStrip(SubSeq(s, 1, Len(s) - 1)) ELSE s

Strip(s) == RStrip(LStrip(s))

\* str.startswith(prefix)
StartsWith(s, prefix) ==
    /\ Len(s) >= Len(prefix)
    /\ SubSeq(s, 1, Len(prefix)) = prefix

\* [ln.strip() for ln in open(path) if ln.strip()]
RECURSIVE StripNonBlank(_)
StripNonBlank(raw) ==
    IF raw = <<>> THEN <<>>
    ELSE IF Strip(Head(raw)) # <<>>
         THEN <<Strip(Head(raw))>> \o StripNonBlank(Tail(raw))
         ELSE StripNonBlank(Tail(raw))

\* The raw text lines a modelled file is made of.
RawLines ==
    { <<"1", " ", "a">>,        \* a line 1
      <<"1", " ", "b">>,        \* another line 1
      <<"2", " ", "a">>,        \* a line 2
      <<"2", " ", "b">>,        \* another line 2
      <<" ", "1", " ", "a">>,   \* a line 1 with leading whitespace
      <<"1", " ">>,             \* "1 " alone: strips to "1"
      <<"2", "1", " ">>,        \* neither
      <<" ", "\t">>,            \* a blank line
      <<"x">> }                 \* a stray line

\* The test of line 38.
IsPairAt(ls, n) ==
    /\ StartsWith(ls[n], <<"1", " ">>)
    /\ StartsWith(ls[n + 1], <<"2", " ">>)

\* Line 43 with the realignment stepping over the whole candidate pair.
RealignByTwo(n) == n + 2

\* Line 43: i += 1
Realign(n) == n + 1

\* Lines 44-45 with the emptiness test left out.
NoPairsUnchecked(ps) == FALSE

\* Line 44: if not pairs
NoPairs(ps) == ps = <<>>

\* Lines 30-31: the path does not exist.
ReadMissing ==
    /\ rpc = "start"
    /\ ~path_exists
    /\ rpc' = "FileNotFoundError"
    /\ UNCHANGED <<path_exists, file, lines, pairs, i>>
    /\ UNCHANGED <<histVars, stdout, arcVars, apc, renderVars>>

\* Lines 32-34: read, strip and filter the lines; pairs = [], i = 0.
ReadOpen ==
    /\ rpc = "start"
    /\ path_exists
    /\ lines' = StripNonBlank(file)
    /\ pairs' = <<>>
    /\ i' = 0
    /\ rpc' = "scan"
    /\ UNCHANGED <<path_exists, file>>
    /\ UNCHANGED <<histVars, stdout, arcVars, apc, renderVars>>

\* Lines 35-40: the loop test holds and the two lines form a pair.
\* (i is 0-based as in the source; sequences are 1-based.)
ScanPair ==
    /\ rpc = "scan"
    /\ i < Len(lines) - 1
    /\ IsPairAt(lines, i + 1)
    /\ pairs' = Append(pairs, <<lines[i + 1], lines[i + 2]>>)
    /\ i' = i + 2
    /\ UNCHANGED <<path_exists, file, lines, rpc>>
    /\ UNCHANGED <<histVars, stdout, arcVars, apc, renderVars>>

\* Lines 35-37, 41-43: the two lines are no pair; realign by one.  Nothing
\* is printed or logged.
ScanRealign ==
    /\ rpc = "scan"
    /\ i < Len(lines) - 1
    /\ ~IsPairAt(lines, i + 1)
    /\ i' = Realign(i)
    /\ UNCHANGED <<path_exists, file, lines, pairs, rpc>>
    /\ UNCHANGED <<histVars, stdout, arcVars, apc, renderVars>>

\* Lines 44-46: the loop has ended; raise ValueError or return pairs.
ScanEnd ==
    /\ rpc = "scan"
    /\ ~(i < Len(lines) - 1)
    /\ rpc' = IF NoPairs(pairs) THEN "ValueError" ELSE "returned"
    /\ UNCHANGED <<path_exists, file, lines, pairs, i>>
    /\ UNCHANGED <<histVars, stdout, arcVars, apc, renderVars>>

ReaderNext == ReadMissing \/ ReadOpen \/ ScanPair \/ ScanRealign \/ ScanEnd

ReaderIdle ==
    /\ path_exists = FALSE /\ file = <<>>
    /\ lines = <<>> /\ pairs = <<>> /\ i = 0 /\ rpc = "idle"

ReaderInit ==
    /\ path_exists \in BOOLEAN
    /\ file \in IF path_exists THEN SeqsUpTo(RawLines, MaxLines) ELSE {<<>>}
    /\ lines = <<>> /\ pairs = <<>> /\ i = 0 /\ rpc = "start"

---------------------------------------------------------------------------
(* The element-history scripts: text helpers *)

Digits == {"0", "1", "2", "3", "4", "5", "6", "7", "8", "9"}

DigitVal(c) ==
    CASE c = "0" -> 0 [] c = "1" -> 1 [] c = "2" -> 2 [] c = "3" -> 3
      [] c = "4" -> 4 [] c = "5" -> 5 [] c = "6" -> 6 [] c = "7" -> 7
      [] c = "8" -> 8 [] c = "9" -> 9

IsDigits(s) == \A n \in 1..Len(s) : s[n] \in Digits

\* int(s) for a run of decimal digits (0 for the empty run).
RECURSIVE ParseDigits(_)
ParseDigits(s) ==
    IF s = <<>> THEN 0
    ELSE 10 * ParseDigits(SubSeq(s, 1, Len(s) - 1)) + DigitVal(Last(s))

\* s[a:b] of Python, a and b 0-based, clipped to the string.
Slice(s, a, b) == SubSeq(s, a + 1, Min(b, Len(s)))

\* Index of the first c in s, 0 when there is none.
IndexOf(s, c) ==
    IF \E n \in 1..Len(s) : s[n] = c
    THEN CHOOSE n \in 1..Len(s) : s[n] = c /\ \A m \in 1..(n - 1) : s[m] # c
    ELSE 0

\* str.rstrip("\n")
RECURSIVE RStripNewline(_)
RStripNewline(s) ==
    IF s # <<>> /\ Last(s) = "\n" THEN RStripNewline(SubSeq(s, 1, Len(s) - 1)) ELSE s

\* Stands for the ValueError float() raises: no number has these fields.
NaF == [ip |-> -1, fp |-> -1, fd |-> -1]

\* float(s) for unsigned decimal text: surrounding whitespace is dropped, and
\* the text must be digits with at most one point and at least one digit.
\* The value is exact: ip + fp / 10^fd.
ParseFloat(s) ==
    LET t == Strip(s)
        dot == IndexOf(t, ".")
        ipart == IF dot = 0 THEN t ELSE SubSeq(t, 1, dot - 1)
        fpart == IF dot = 0 THEN <<>> ELSE SubSeq(t, dot + 1, Len(t))
    IN  IF IsDigits(ipart) /\ IsDigits(fpart) /\ Len(ipart) + Len(fpart) >= 1
        THEN [ip |-> ParseDigits(ipart), fp |-> ParseDigits(fpart), fd |-> Len(fpart)]
        ELSE NaF

\* re.search returns None (a match is never empty).
NoMatch == <<>>

\* The places where \s(\d{5}\.\d+) matches: s[p] is the whitespace.
EpochMatches(s) ==
    { p \in 1..Len(s) :
        /\ p + 7 <= Len(s)
        /\ s[p] \in Whitespace
        /\ IsDigits(SubSeq(s, p + 1, p + 5))
        /\ s[p + 6] = "."
        /\ s[p + 7] \in Digits }

\* How far the greedy \d+ runs from position n.
RECURSIVE DigitRunEnd(_, _)
DigitRunEnd(s, n) ==
    IF n + 1 <= Len(s) /\ s[n + 1] \in Digits THEN DigitRunEnd(s, n + 1) ELSE n

\* re.search(r"\s(\d{5}\.\d+)", line1): group(1) of the leftmost match.
EpochSearch(s) ==
    IF EpochMatches(s) = {} THEN NoMatch
    ELSE LET p == CHOOSE q \in EpochMatches(s) : \A r \in EpochMatches(s) : q <= r
         IN  SubSeq(s, p + 1, DigitRunEnd(s, p + 7))

---------------------------------------------------------------------------
(* The element-history scripts: epoch normalization (lines 23-34 of        *)
(* orbit_3d_norad63130.py, 28-41 of its twin)                              *)

\* integer_part = epoch_field.split('.')[0]; year_two_digits = int(integer_part[:2])
YearTwoDigits(field) ==
    ParseDigits(Slice(SubSeq(field, 1, IndexOf(field, ".") - 1), 0, 2))

\* year = 2000 + year_two_digits
EpochYear(field) == 2000 + YearTwoDigits(field)

\* effective_epoch = epoch_raw - (year_two_digits * 1000)
EffectiveEpoch(field) ==
    LET epoch_raw == ParseFloat(field)
    IN  [epoch_raw EXCEPT !.ip = @ - YearTwoDigits(field) * 1000]

\* day_of_year = int(effective_epoch): truncation toward zero.
DayOfYear(field) ==
    LET e == EffectiveEpoch(field)
    IN  IF e.ip >= 0 THEN e.ip ELSE IF e.fp = 0 THEN e.ip ELSE e.ip + 1

\* frac_day = effective_epoch - day_of_year (effective_epoch is never negative:
\* epoch_raw >= year_two_digits * 1000).
FracDay(field) ==
    LET e == EffectiveEpoch(field)
    IN  [ip |-> e.ip - DayOfYear(field), fp |-> e.fp, fd |-> e.fd]

IsLeap(y) == (y % 4 = 0 /\ y % 100 # 0) \/ y % 400 = 0

\* Days from 2000-01-01 to January 1 of year y (y >= 2000).
RECURSIVE DaysBeforeYear(_)
DaysBeforeYear(y) ==
    IF y <= 2000 THEN 0
    ELSE DaysBeforeYear(y - 1) + (IF IsLeap(y - 1) THEN 366 ELSE 365)

\* The timedelta with the 1-based day of year taken as an offset.
EpochDtNoDayShift(field) ==
    [days |-> DaysBeforeYear(EpochYear(field)) + DayOfYear(field) + FracDay(field).ip,
     fp |-> FracDay(field).fp, fd |-> FracDay(field).fd]

\* epoch_dt = datetime(year, 1, 1) + timedelta(days=day_of_year - 1 + frac_day):
\* an instant, as whole days since 2000-01-01 plus a decimal fraction of a day.
EpochDt(field) ==
    [days |-> DaysBeforeYear(EpochYear(field)) + DayOfYear(field) - 1 + FracDay(field).ip,
     fp |-> FracDay(field).fp, fd |-> FracDay(field).fd]

---------------------------------------------------------------------------
(* The element-history scripts: the files *)

\* Largest number of lines in a modelled element-history file.
MaxHistLines == 3

DigitChar(d) ==
    CASE d = 0 -> "0" [] d = 1 -> "1" [] d = 2 -> "2" [] d = 3 -> "3"
      [] d = 4 -> "4" [] d = 5 -> "5" [] d = 6 -> "6" [] d = 7 -> "7"
      [] d = 8 -> "8" [] d = 9 -> "9"

\* n written with w decimal digits, zero padded.
RECURSIVE NDigits(_, _)
NDigits(n, w) ==
    IF w = 0 THEN <<>> ELSE NDigits(n \div 10, w - 1) \o <<DigitChar(n % 10)>>

\* The TLE epoch field YYDDD.FFFFFFFF.
EpochText(yy, ddd, f) == NDigits(yy, 2) \o NDigits(ddd, 3) \o <<".">> \o NDigits(f, 8)

EpochYears == {0, 24, 25, 99}

EpochDays == {1, 143, 365, 366}

EpochFracs == {0, 50000000, 57154119, 99999999}

EpochFields == {EpochText(yy, ddd, f) : yy \in EpochYears, ddd \in EpochDays, f \in EpochFracs}

\* Line 1 of a record: columns 1-18, the epoch in columns 19-32, the rest.
Line1(ep) ==
    <<"1", " ", "6", "3", "1", "3", "0", "U", " ", "2", "5", "0", "5", "2", "A", " ", " ", " ">>
      \o ep
      \o <<" ", " ", ".", "0", "0", "0", "0", "0", "0", "0", "0", " ", " ", "0", "0", "0", "0", "0">>
      \o <<"-", "0", " ", " ", "0", "0", "0", "0", "0", "-", "0", " ", "0", " ", " ", "9", "9", "9", "0">>
      \o <<"\n">>

\* Line 2 of a record, the last digit of every element set to v.
Line2Cols(pre, inc, ec, v) ==
    pre \o <<"6", "3", "1", "3", "0", " ">>
      \o inc \o <<v, " ">>
      \o <<"1", "2", "3", ".", "4", "5", "6", v, " ">>
      \o ec \o <<v, " ">>
      \o <<" ", "9", "0", ".", "0", "0", "0", v, " ">>
      \o <<"2", "7", "0", ".", "0", "0", "0", v, " ">>
      \o <<"1", "5", ".", "1", "2", "3", "4", "5", "6", "7", v>>
      \o <<" ", " ", " ", " ", "1", "0", "\n">>

Line2(v) ==
    Line2Cols(<<"2", " ">>, <<" ", "9", "7", ".", "4", "0", "0">>,
              <<"0", "0", "0", "1", "2", "3">>, v)

\* A line 2 whose inclination is not a number.
Line2BadIncl(v) ==
    Line2Cols(<<"2", " ">>, <<" ", "9", "x", ".", "4", "0", "0">>,
              <<"0", "0", "0", "1", "2", "3">>, v)

\* A line 2 whose eccentricity is not a number.
Line2BadEcc(v) ==
    Line2Cols(<<"2", " ">>, <<" ", "9", "7", ".", "4", "0", "0">>,
              <<"0", "0", "0", "x", "2", "3">>, v)

\* A line with the elements of a line 2 that does not begin with "2 ".
Line2BadPrefix(v) ==
    Line2Cols(<<"3", " ">>, <<" ", "9", "7", ".", "4", "0", "0">>,
              <<"0", "0", "0", "1", "2", "3">>, v)

BlankLine == <<"\n">>

HistLines ==
    { Line1(EpochText(25, 143, 57154119)), Line1(EpochText(25, 144, 0)),
      Line2("1"), Line2("2"), Line2BadIncl("4"), Line2BadEcc("5"),
      Line2BadPrefix("3"), BlankLine }

HistFiles ==
    SeqsUpTo(HistLines, MaxHistLines)
      \cup {<<Line1(ep), Line2("1")>> : ep \in EpochFields}

---------------------------------------------------------------------------
(* The element-history scripts: the parse loop (lines 15-47, twin 17-56)   *)
(* and the DataFrame (lines 54-62, twin 64-72)                             *)

\* The six element columns of line 2, in the order the loop parses them.
ElementFields(line2) ==
    << ParseFloat(Slice(line2, 8, 16)),
       ParseFloat(Slice(line2, 17, 25)),
       ParseFloat(<<"0", ".">> \o Strip(Slice(line2, 26, 33))),
       ParseFloat(Slice(line2, 34, 42)),
       ParseFloat(Slice(line2, 43, 51)),
       ParseFloat(Slice(line2, 52, 63)) >>

\* The first column whose float() raises, 7 when all six parse.
FirstBadField(line2) ==
    LET f == ElementFields(line2)
    IN  IF \E n \in 1..6 : f[n] = NaF
        THEN CHOOSE n \in 1..6 : f[n] = NaF /\ \A m \in 1..(n - 1) : f[m] # NaF
        ELSE 7

\* line1 and line2 of the iteration at index n (0-based).
HistLine1(n) == RStripNewline(hlines[n + 1])

HistLine2(n) == RStripNewline(hlines[n + 2])

\* column.append(value) when the statement is reached.
AppendIf(reached, column, value) == IF reached THEN Append(column, value) ELSE column

\* lines[i + 1] raises IndexError: caught, reported, next iteration.
HistIndexError ==
    /\ hpc = "loop"
    /\ hi < Len(hlines)
    /\ hi + 1 >= Len(hlines)
    /\ stdout' = Append(stdout, [msg |-> "Skipping malformed TLE pair:", arg |-> "IndexError"])
    /\ hi' = hi + 2
    /\ UNCHANGED <<hlines, hpc, epoch_field, year, day_of_year, frac_day,
                   epochs, incl, raan, ecc, argp, mean_anom, mean_motion>>
    /\ UNCHANGED <<readerVars, arcVars, apc, renderVars>>

\* The regular expression finds no epoch in line1: reported, next iteration.
HistNoEpoch ==
    /\ hpc = "loop"
    /\ hi + 1 < Len(hlines)
    /\ EpochSearch(HistLine1(hi)) = NoMatch
    /\ stdout' = Append(stdout, [msg |-> "Epoch not found in:", arg |-> HistLine1(hi)])
    /\ hi' = hi + 2
    /\ UNCHANGED <<hlines, hpc, epoch_field, year, day_of_year, frac_day,
                   epochs, incl, raan, ecc, argp, mean_anom, mean_motion>>
    /\ UNCHANGED <<readerVars, arcVars, apc, renderVars>>

\* The epoch is found and appended; the six elements all parse and are appended.
HistRecord ==
    /\ hpc = "loop"
    /\ hi + 1 < Len(hlines)
    /\ EpochSearch(HistLine1(hi)) # NoMatch
    /\ FirstBadField(HistLine2(hi)) = 7
    /\ LET field == EpochSearch(HistLine1(hi))
           f == ElementFields(HistLine2(hi))
       IN  /\ epoch_field' = field
           /\ year' = EpochYear(field)
           /\ day_of_year' = DayOfYear(field)
           /\ frac_day' = FracDay(field)
           /\ epochs' = Append(epochs, EpochDt(field))
           /\ incl' = Append(incl, f[1])
           /\ raan' = Append(raan, f[2])
           /\ ecc' = Append(ecc, f[3])
           /\ argp' = Append(argp, f[4])
           /\ mean_anom' = Append(mean_anom, f[5])
           /\ mean_motion' = Append(mean_motion, f[6])
    /\ hi' = hi + 2
    /\ UNCHANGED <<hlines, hpc, stdout>>
    /\ UNCHANGED <<readerVars, arcVars, apc, renderVars>>

\* The epoch is found and appended; then float() raises ValueError on one of
\* the elements: the appends made before it stay, the exception is caught
\* and reported, next iteration.
HistFieldError ==
    /\ hpc = "loop"
    /\ hi + 1 < Len(hlines)
    /\ EpochSearch(HistLine1(hi)) # NoMatch
    /\ FirstBadField(HistLine2(hi)) <= 6
    /\ LET field == EpochSearch(HistLine1(hi))
           f == ElementFields(HistLine2(hi))
           bad == FirstBadField(HistLine2(hi))
       IN  /\ epoch_field' = field
           /\ year' = EpochYear(field)
           /\ day_of_year' = DayOfYear(field)
           /\ frac_day' = FracDay(field)
           /\ epochs' = Append(epochs, EpochDt(field))
           /\ incl' = AppendIf(bad > 1, incl, f[1])
           /\ raan' = AppendIf(bad > 2, raan, f[2])
           /\ ecc' = AppendIf(bad > 3, ecc, f[3])
           /\ argp' = AppendIf(bad > 4, argp, f[4])
           /\ mean_anom' = AppendIf(bad > 5, mean_anom, f[5])
           /\ mean_motion' = mean_motion
    /\ stdout' = Append(stdout, [msg |-> "Skipping malformed TLE pair:", arg |-> "ValueError"])
    /\ hi' = hi + 2
    /\ UNCHANGED <<hlines, hpc>>
    /\ UNCHANGED <<readerVars, arcVars, apc, renderVars>>

\* The loop ends; the sanity print of the first epochs.
HistDone ==
    /\ hpc = "loop"
    /\ hi >= Len(hlines)
    /\ hpc' = "done"
    /\ stdout' = Append(stdout, [msg |-> "First 5 parsed epochs:",
                                 arg |-> SubSeq(epochs, 1, Min(5, Len(epochs)))])
    /\ UNCHANGED <<hlines, hi, epoch_field, year, day_of_year, frac_day,
                   epochs, incl, raan, ecc, argp, mean_anom, mean_motion>>
    /\ UNCHANGED <<readerVars, arcVars, apc, renderVars>>

\* pd.DataFrame of the seven columns: ValueError unless all have one length.
HistFrame ==
    /\ hpc = "done"
    /\ hpc' = IF \A c \in {incl, raan, ecc, argp, mean_anom, mean_motion} : Len(c) = Len(epochs)
              THEN "frame" ELSE "ValueError"
    /\ UNCHANGED <<hlines, hi, epoch_field, year, day_of_year, frac_day,
                   epochs, incl, raan, ecc, argp, mean_anom, mean_motion, stdout>>
    /\ UNCHANGED <<readerVars, arcVars, apc, renderVars>>

HistNext ==
    HistIndexError \/ HistNoEpoch \/ HistRecord \/ HistFieldError \/ HistDone \/ HistFrame

HistIdle ==
    /\ hlines = <<>> /\ hi = 0 /\ hpc = "idle"
    /\ epoch_field = NoMatch /\ year = 0 /\ day_of_year = 0 /\ frac_day = NaF
    /\ epochs = <<>> /\ incl = <<>> /\ raan = <<>> /\ ecc = <<>>
    /\ argp = <<>> /\ mean_anom = <<>> /\ mean_motion = <<>>

HistInit ==
    /\ hlines \in HistFiles
    /\ hi = 0 /\ hpc = "loop"
    /\ epoch_field = NoMatch /\ year = 0 /\ day_of_year = 0 /\ frac_day = NaF
    /\ epochs = <<>> /\ incl = <<>> /\ raan = <<>> /\ ecc = <<>>
    /\ argp = <<>> /\ mean_anom = <<>> /\ mean_motion = <<>>

---------------------------------------------------------------------------
(* propagate_arc: the time grid (line 69)                                  *)
(*                                                                         *)
(* Times are binary floating-point numbers, held as whole numbers of       *)
(* 1/128 minute: 64 is 0.5, 128 is 1.0 and 13 is 0.1 as the format stores  *)
(* it.  A number is representable when it has at most FloatBits            *)
(* significant bits; every operation rounds its exact result to the        *)
(* nearest representable number, ties to even, as IEEE 754 does.           *)

\* Significand bits of the modelled floating-point format.
FloatBits == 5

\* 1.0 in units of 1/128.
One == 2 ^ 7

RECURSIVE BitLen(_)
BitLen(n) == IF n = 0 THEN 0 ELSE 1 + BitLen(n \div 2)

\* a / b rounded to the nearest representable number, ties to even.
RoundRatio(a, b) ==
    LET q == 2 ^ Max(0, BitLen(a \div b) - FloatBits)
        n == a \div (b * q)
        r == a % (b * q)
        up == 2 * r > b * q \/ (2 * r = b * q /\ n % 2 = 1)
    IN  (IF up THEN n + 1 ELSE n) * q

FAdd(x, y) == RoundRatio(x + y, 1)

FSub(x, y) == RoundRatio(x - y, 1)

FMul(x, y) == RoundRatio(x * y, One)

FDiv(x, y) == RoundRatio(x * One, y)

\* An integer as a floating-point number.
FromInt(n) == RoundRatio(n * One, 1)

\* ceil() of a non-negative floating-point number, as an integer.
Ceil(x) == (x + One - 1) \div One

\* tsince = np.arange(0.0, minutes + step_min, step_min, dtype=float):
\* ceil((stop - start) / step) values, the n-th being start + n * delta with
\* delta = (start + step) - start.
TimeGrid(span, step) ==
    LET stop == FAdd(span, step)
        len == Ceil(FDiv(FSub(stop, 0), step))
        delta == FSub(FAdd(0, step), 0)
    IN  [n \in 1..len |-> FAdd(0, FMul(FromInt(n - 1), delta))]

---------------------------------------------------------------------------
(* propagate_arc: the sampling loop (lines 70-79)                          *)

\* Largest time grid whose sampling loop is explored.
MaxGrid == 4

\* Positions (km) the propagator may return.
Positions == { <<0, 0, 0>>, <<7, 0, -1>>, <<-3, 4, 2>>, <<1, -6, 5>>, <<2, 2, 9>> }

\* Non-zero SGP4 error codes.
ErrorCodes == {1, 6}

ArcSteps == {13, 64}

ArcSpans == {0, 13, 26, 64, 100, 128, 192}

ArcInputs ==
    { in \in ArcSpans \X ArcSteps : Len(TimeGrid(in[1], in[2])) <= MaxGrid }

\* Line 75 leaving the loop instead of going on to the next grid point.
AfterBadStepBreak(n) == Len(tsince)

\* Line 75: continue
AfterBadStep(n) == n + 1

\* Lines 66-70: the epoch, the grid, the empty lists.
ArcGrid ==
    /\ apc = "call"
    /\ tsince' = TimeGrid(minutes, step_min)
    /\ k' = 0
    /\ calls' = <<>>
    /\ xyz' = <<>>
    /\ apc' = "loop"
    /\ UNCHANGED <<minutes, step_min>>
    /\ UNCHANGED <<readerVars, histVars, stdout, renderVars>>

\* Lines 71-72, 76-78: the propagator succeeds; the position is appended.
ArcStepOk ==
    /\ apc = "loop"
    /\ k < Len(tsince)
    /\ \E r \in Positions :
        /\ calls' = Append(calls, [dt |-> tsince[k + 1], e |-> 0, r |-> r])
        /\ xyz' = Append(xyz, r)
    /\ k' = k + 1
    /\ UNCHANGED <<minutes, step_min, tsince, apc>>
    /\ UNCHANGED <<readerVars, histVars, stdout, renderVars>>

\* Lines 71-75: the propagator returns an error code; the step is skipped,
\* silently.
ArcStepBad ==
    /\ apc = "loop"
    /\ k < Len(tsince)
    /\ \E e \in ErrorCodes :
        calls' = Append(calls, [dt |-> tsince[k + 1], e |-> e, r |-> <<"nan", "nan", "nan">>])
    /\ k' = AfterBadStep(k)
    /\ UNCHANGED <<minutes, step_min, tsince, xyz, apc>>
    /\ UNCHANGED <<readerVars, histVars, stdout, renderVars>>

\* Line 79, and line 124 of render_orbit_png: the rows are stacked and
\* returned, whether or not there are any.
ArcReturn ==
    /\ apc = "loop"
    /\ k >= Len(tsince)
    /\ r_a' = xyz
    /\ apc' = "returned"
    /\ UNCHANGED <<r_b, mode, plotted, lims>>
    /\ UNCHANGED <<readerVars, histVars, stdout, arcVars>>

---------------------------------------------------------------------------
(* render_orbit_png (lines 136-138), render_combined_png (195-201) and     *)
(* set_equal_aspect_3d (82-90)                                             *)
(*                                                                         *)
(* Coordinates are whole numbers; the limits, which halve them, are held   *)
(* doubled.                                                                *)

\* Largest number of samples of a trajectory handed to the plotting code.
MaxSamples == 2

SeqMax(s) == CHOOSE x \in {s[n] : n \in 1..Len(s)} : \A n \in 1..Len(s) : s[n] <= x

SeqMin(s) == CHOOSE x \in {s[n] : n \in 1..Len(s)} : \A n \in 1..Len(s) : x <= s[n]

\* X[:, a]
Column(X, a) == [n \in 1..Len(X) |-> X[n][a]]

\* X[:, a].ptp()
Ptp(X, a) == SeqMax(Column(X, a)) - SeqMin(Column(X, a))

\* Line 84 taking the smallest of the three ranges.
MinRange(X) == SeqMin(<<Ptp(X, 1), Ptp(X, 2), Ptp(X, 3)>>)

\* Line 84: max_range
MaxRange(X) == SeqMax(<<Ptp(X, 1), Ptp(X, 2), Ptp(X, 3)>>)

\* Lines 85-87, doubled: X[:, a].max() + X[:, a].min()
TwiceMid(X, a) == SeqMax(Column(X, a)) + SeqMin(Column(X, a))

\* Lines 88-90, doubled: (mid - max_range/2, mid + max_range/2) on each axis.
EqualAspectLimits(X) ==
    [a \in 1..3 |-> <<TwiceMid(X, a) - MaxRange(X), TwiceMid(X, a) + MaxRange(X)>>]

\* The array given to set_equal_aspect_3d: r_eci (line 138), or
\* np.vstack([r_a, r_b]) (line 200).
AspectData == IF mode = "single" THEN r_a ELSE r_a \o r_b

\* Lines 136 / 195-196: ax.plot of each trajectory, empty or not.
Plot ==
    /\ apc = "returned"
    /\ plotted' = IF mode = "single" THEN <<r_a>> ELSE <<r_a, r_b>>
    /\ apc' = "plotted"
    /\ UNCHANGED <<r_a, r_b, mode, lims>>
    /\ UNCHANGED <<readerVars, histVars, stdout, arcVars>>

\* Lines 138 / 201 with data: the limits are set.
SetEqualAspect ==
    /\ apc = "plotted"
    /\ AspectData # <<>>
    /\ lims' = EqualAspectLimits(AspectData)
    /\ apc' = "framed"
    /\ UNCHANGED <<r_a, r_b, mode, plotted>>
    /\ UNCHANGED <<readerVars, histVars, stdout, arcVars>>

\* Lines 138 / 201 with no data: ptp() of a zero-size array raises ValueError.
AspectOfNothing ==
    /\ apc = "plotted"
    /\ AspectData = <<>>
    /\ apc' = "ValueError"
    /\ UNCHANGED <<r_a, r_b, mode, plotted, lims>>
    /\ UNCHANGED <<readerVars, histVars, stdout, arcVars>>

NoLimits == <<>>

ArcIdle ==
    /\ minutes = 0 /\ step_min = 0 /\ tsince = <<>> /\ k = 0
    /\ calls = <<>> /\ xyz = <<>>

RenderIdle ==
    /\ r_a = <<>> /\ r_b = <<>> /\ mode = "single"
    /\ plotted = <<>> /\ lims = NoLimits

---------------------------------------------------------------------------
(* Specifications *)

\* read_tle_file on one file.
InitReader ==
    /\ ReaderInit /\ HistIdle /\ ArcIdle /\ RenderIdle
    /\ stdout = <<>> /\ apc = "idle"

SpecReader == InitReader /\ [][ReaderNext]_vars

\* An element-history script on one file.
InitHistory ==
    /\ ReaderIdle /\ HistInit /\ ArcIdle /\ RenderIdle
    /\ stdout = <<>> /\ apc = "idle"

SpecHistory == InitHistory /\ [][HistNext]_vars

\* render_orbit_png from its call of propagate_arc on.
InitArc ==
    /\ ReaderIdle /\ HistIdle /\ RenderIdle
    /\ \E in \in ArcInputs : minutes = in[1] /\ step_min = in[2]
    /\ tsince = <<>> /\ k = 0 /\ calls = <<>> /\ xyz = <<>>
    /\ stdout = <<>> /\ apc = "call"

ArcNext ==
    ArcGrid \/ ArcStepOk \/ ArcStepBad \/ ArcReturn \/ Plot \/ SetEqualAspect \/ AspectOfNothing

SpecArc == InitArc /\ [][ArcNext]_vars

\* render_orbit_png and render_combined_png from the trajectories on.
InitRender ==
    /\ ReaderIdle /\ HistIdle /\ ArcIdle
    /\ r_a \in SeqsUpTo(Positions, MaxSamples)
    /\ mode \in {"single", "combined"}
    /\ r_b \in IF mode = "single" THEN {<<>>} ELSE SeqsUpTo(Positions, MaxSamples)
    /\ plotted = <<>> /\ lims = NoLimits
    /\ stdout = <<>> /\ apc = "returned"

RenderNext == Plot \/ SetEqualAspect \/ AspectOfNothing

SpecRender == InitRender /\ [][RenderNext]_vars

---------------------------------------------------------------------------
(* Properties of read_tle_file, checked under SpecReader *)

ScanEnded == rpc \in {"returned", "ValueError"}

\* Every adjacent pair of ls from index n on whose first line starts with
\* "1 " and whose second starts with "2 ", in order of position.
RECURSIVE AdjacentPairs(_, _)
AdjacentPairs(ls, n) ==
    IF n >= Len(ls) THEN <<>>
    ELSE (IF /\ Len(ls[n]) >= 2 /\ ls[n][1] = "1" /\ ls[n][2] = " "
             /\ Len(ls[n + 1]) >= 2 /\ ls[n + 1][1] = "2" /\ ls[n + 1][2] = " "
          THEN <<(<<ls[n], ls[n + 1]>>)>> ELSE <<>>)
         \o AdjacentPairs(ls, n + 1)

\* C1: when the scan has ended, the pairs collected are exactly the adjacent
\* non-blank lines (lines[k], lines[k+1]) with lines[k] starting "1 " and
\* lines[k+1] starting "2 ", in file order: realigning by one line loses
\* none of them and admits no other.
C1_ScanFindsEveryPair == ScanEnded => pairs = AdjacentPairs(lines, 1)

\* A file whose pair sits at an odd offset, found after a realignment.
C1_RealignedPairFound ==
    /\ rpc = "returned"
    /\ \E n \in 1..Len(pairs) : \E m \in 1..(Len(lines) - 1) :
          m % 2 = 0 /\ pairs[n] = <<lines[m], lines[m + 1]>>
    /\ Len(lines) > 2 * Len(pairs)

\* C2: read_tle_file never returns an empty list: a non-empty input without
\* a single valid pair ends in ValueError.
C2_NoPairsIsAnError ==
    /\ rpc = "returned" => pairs # <<>>
    /\ (ScanEnded /\ lines # <<>> /\ AdjacentPairs(lines, 1) = <<>>) => rpc = "ValueError"

\* Candidate pairs were scanned, all were malformed, and the reader raised.
C2_AllMalformedRaised ==
    /\ rpc = "ValueError"
    /\ Len(lines) >= 2
    /\ i >= 1

\* C10: when the scan has ended, every line stepped over without being put
\* in a pair has been reported with its content: as many diagnostic events
\* as skipped lines.
C10_SkippedLinesReported ==
    ScanEnded =>
        /\ Len(stdout) = Len(lines) - 2 * Len(pairs)
        /\ \A n \in 1..Len(lines) :
              (\A m \in 1..Len(pairs) : lines[n] # pairs[m][1] /\ lines[n] # pairs[m][2])
                  => \E d \in 1..Len(stdout) : stdout[d].arg = lines[n]

---------------------------------------------------------------------------
(* Properties of the element-history scripts, checked under SpecHistory *)

ElementColumns == <<incl, raan, ecc, argp, mean_anom, mean_motion>>

\* The 0-based offsets at which the loop takes a pair.
PairOffsets == {n \in 0..(Len(hlines) - 2) : n % 2 = 0}

\* C3: a pair whose field extraction fails contributes nothing: the seven
\* columns always have one length, and each row holds the epoch and the six
\* elements of one pair of the file.
C3_ColumnsStayAligned ==
    /\ \A c \in 1..6 : Len(ElementColumns[c]) = Len(epochs)
    /\ \A row \in 1..Len(epochs) : \E n \in PairOffsets :
          /\ EpochSearch(HistLine1(n)) # NoMatch
          /\ epochs[row] = EpochDt(EpochSearch(HistLine1(n)))
          /\ \A c \in 1..6 : ElementColumns[c][row] = ElementFields(HistLine2(n))[c]

HasPrefix(line, digit) == Len(line) >= 2 /\ line[1] = digit /\ line[2] = " "

\* A complete record at 0-based offset n: "1 " line with an epoch, then a
\* "2 " line whose six elements are numbers.
WellFormedAt(n) ==
    /\ HasPrefix(HistLine1(n), "1") /\ HasPrefix(HistLine2(n), "2")
    /\ EpochSearch(HistLine1(n)) # NoMatch
    /\ FirstBadField(HistLine2(n)) = 7

\* C4: no element set comes from a pair that breaks the "1 "/"2 " prefix
\* rule, and a stray line does not unpair the records after it: once the
\* loop has ended, every complete record of the file has its row.
C4_OnlyPrefixedPairsAreParsed ==
    /\ \A row \in 1..Len(mean_motion) : \E n \in 0..(Len(hlines) - 2) :
          /\ HasPrefix(HistLine1(n), "1") /\ HasPrefix(HistLine2(n), "2")
          /\ mean_motion[row] = ElementFields(HistLine2(n))[6]
    /\ hpc # "loop" =>
          \A n \in 0..(Len(hlines) - 2) : WellFormedAt(n) =>
              \E row \in 1..Len(mean_motion) :
                  mean_motion[row] = ElementFields(HistLine2(n))[6]

---------------------------------------------------------------------------
(* Properties of propagate_arc, checked under SpecArc *)

\* The positions of the calls that returned error code 0, in call order.
RECURSIVE GoodPositions(_)
GoodPositions(cs) ==
    IF cs = <<>> THEN <<>>
    ELSE (IF Head(cs).e = 0 THEN <<Head(cs).r>> ELSE <<>>) \o GoodPositions(Tail(cs))

ArcReturned == apc \in {"returned", "plotted", "framed", "ValueError"}

\* C5: a failed step is left out and the next grid point is sampled: the
\* rows collected are the positions of the successful calls in grid order,
\* and when the arc is returned every grid point has been tried.
C5_FailedStepsAreSkipped ==
    /\ apc = "loop" => xyz = GoodPositions(calls)
    /\ ArcReturned =>
          /\ Len(calls) = Len(tsince)
          /\ \A n \in 1..Len(tsince) : calls[n].dt = tsince[n]
          /\ r_a = GoodPositions(calls)

\* An arc was returned in which a failed step is followed by a kept one.
C5_GoodStepAfterBadStep ==
    /\ apc = "returned"
    /\ \E n \in 1..Len(calls) : \E m \in (n + 1)..Len(calls) :
          calls[n].e # 0 /\ calls[m].e = 0 /\ calls[m].r = Last(r_a)

\* C6: the grid starts at 0; when the span is a whole multiple of the step
\* it has span/step + 1 points and ends at the span; for any span its last
\* point is less than one step away from the span.
C6_GridEndsAtSpan ==
    apc \in {"loop"} \cup {"returned", "plotted", "framed", "ValueError"} =>
        /\ tsince[1] = 0
        /\ minutes % step_min = 0 =>
              /\ Len(tsince) = (minutes \div step_min) + 1
              /\ Last(tsince) = minutes
        /\ Last(tsince) - minutes < step_min
        /\ minutes - Last(tsince) < step_min

\* C7: an arc whose every step failed is refused by propagate_arc: no empty
\* trajectory is returned to the code that plots and bounds it.
C7_EmptyArcIsRefused == ArcReturned => r_a # <<>>

---------------------------------------------------------------------------
(* Properties of set_equal_aspect_3d, checked under SpecRender *)

\* The largest difference of two samples' coordinates along one axis.
LargestExtent(X) ==
    CHOOSE d \in {X[n][a] - X[m][a] : n \in 1..Len(X), m \in 1..Len(X), a \in 1..3} :
        \A n \in 1..Len(X), m \in 1..Len(X), a \in 1..3 : X[n][a] - X[m][a] <= d

=============================================================================
